---- MODULE Spec2Model ----
(***************************************************************************)
(* Model of puft's application assembler (puft/core/assembler/assembler.py)*)
(* and of the parts of the Host (puft/core/app/puft.py) that the assembler *)
(* drives: one construction of Assembler is a run through __init__ and     *)
(* _build_all, one action per statement group / per descriptor.            *)
(***************************************************************************)
EXTENDS Integers, Sequences, FiniteSets, TLC

(***************************************************************************)
(* Bounds of the model.                                                    *)
(***************************************************************************)
MaxFiles == 2       \* files in the configuration directory listing
MaxIes == 2         \* descriptors in one list of the Build Declaration
MaxCalls == 2       \* calls of Assembler(...) made in one process

(***************************************************************************)
(* Small helpers on sequences and mappings (python dicts with str keys).   *)
(***************************************************************************)
Last(s) == s[Len(s)]

IsPrefix(s, t) == Len(s) <= Len(t) /\ \A i \in 1..Len(s) : s[i] = t[i]

Range(s) == {s[i] : i \in 1..Len(s)}

\* position of the first element of s that equals x, 0 when there is none
IndexOf(s, x) ==
    IF \E i \in 1..Len(s) : s[i] = x
    THEN CHOOSE i \in 1..Len(s) : s[i] = x /\ \A j \in 1..(i - 1) : s[j] # x
    ELSE 0

EmptyMap == [k \in {} |-> ""]

\* dict.update / "for k, v in over.items(): base[k] = v"
Merge(base, over) ==
    [k \in (DOMAIN base) \cup (DOMAIN over) |->
        IF k \in DOMAIN over THEN over[k] ELSE base[k]]

\* d[key] = value
Put(d, key, value) ==
    [k \in (DOMAIN d) \cup {key} |-> IF k = key THEN value ELSE d[k]]

\* sequences over S without repetition, of length at most n
RECURSIVE SeqsNoRep(_, _)
SeqsNoRep(S, n) ==
    IF n = 0 THEN {<<>>}
    ELSE LET shorter == SeqsNoRep(S, n - 1)
         IN  shorter \cup
             {Append(s, x) : <<s, x>> \in
                 {p \in shorter \X S : Len(p[1]) = n - 1 /\ p[2] \notin Range(p[1])}}

\* all sequences over S of length at most n
RECURSIVE SeqsUpTo(_, _)
SeqsUpTo(S, n) ==
    IF n = 0 THEN {<<>>}
    ELSE LET shorter == SeqsUpTo(S, n - 1)
         IN  shorter \cup
             {Append(p[1], p[2]) : p \in {q \in shorter \X S : Len(q[1]) = n - 1}}

(***************************************************************************)
(* Enumerations.                                                           *)
(***************************************************************************)
CLIRunEnum == {"dev", "test", "prod"}
CLIHelperEnum == {"shell", "cmd", "deploy"}
CLIDbEnum == {"init", "migrate", "upgrade"}
AppModeEnum == {"dev", "test", "prod"}
ConfigExtensionEnum == {"yaml"}

\* a member of one of the three CLI mode enums: its enum type and its value
CLIModeEnumUnion ==
    [enum : {"CLIRunEnum"}, value : CLIRunEnum]
        \cup [enum : {"CLIHelperEnum"}, value : CLIHelperEnum]
        \cup [enum : {"CLIDbEnum"}, value : CLIDbEnum]

(***************************************************************************)
(* The configuration directory: what os.listdir / os.path.isfile /         *)
(* load_yaml see.  An entry of the listing is a filename; Split is         *)
(* filename.split("."), IsFile is os.path.isfile, LoadYaml the parsed      *)
(* content of the file.                                                    *)
(***************************************************************************)
DirEntries ==
    {"puft.yaml", "db.yaml", "db.dev.yaml", "db.test.yaml", "socket.yaml",
     "log.yaml", "user.yaml"}

\* entries the scan has to skip or to overwrite with: no extension, an
\* unknown extension (with and without environment tag), an unknown
\* environment tag, four segments, a directory, and a second file for the
\* pair (db, prod)
OddEntries ==
    {"README", "db.txt", "db.dev.txt", "socket.d.yaml", "db.new.prod.yaml",
     "cache.yaml", "db.prod.yaml"}

Split(filename) ==
    CASE filename = "puft.yaml"        -> <<"puft", "yaml">>
      [] filename = "db.yaml"          -> <<"db", "yaml">>
      [] filename = "db.dev.yaml"      -> <<"db", "dev", "yaml">>
      [] filename = "db.test.yaml"     -> <<"db", "test", "yaml">>
      [] filename = "socket.yaml"      -> <<"socket", "yaml">>
      [] filename = "log.yaml"         -> <<"log", "yaml">>
      [] filename = "user.yaml"        -> <<"user", "yaml">>
      [] filename = "log.dev.yaml"     -> <<"log", "dev", "yaml">>
      [] filename = "README"           -> <<"README">>
      [] filename = "db.txt"           -> <<"db", "txt">>
      [] filename = "db.dev.txt"       -> <<"db", "dev", "txt">>
      [] filename = "socket.d.yaml"    -> <<"socket", "d", "yaml">>
      [] filename = "db.new.prod.yaml" -> <<"db", "new", "prod", "yaml">>
      [] filename = "cache.yaml"       -> <<"cache", "yaml">>
      [] filename = "db.prod.yaml"     -> <<"db", "prod", "yaml">>

\* cache.yaml is a directory, every other entry a regular file
IsFile(filename) == filename # "cache.yaml"

LoadYaml(file_path) ==
    CASE file_path = "puft.yaml" ->
            [src |-> "puft.yaml",
             wildcard_builtin_error_handler_enabled |-> "False"]
      [] file_path = "db.yaml" -> [src |-> "db.yaml", root_path |-> "/etc"]
      [] file_path = "log.yaml" -> [level |-> "INFO"]
      [] file_path = "log.dev.yaml" -> [level |-> "TRACE"]
      [] OTHER -> [src |-> file_path]

Listings == SeqsNoRep(DirEntries, MaxFiles)

OddListings == SeqsNoRep(DirEntries \cup OddEntries, MaxFiles)

(***************************************************************************)
(* Assembler._find_config_files: the scan of the listing, in listing       *)
(* order.  The python dict keeps insertion order, so the result is a       *)
(* sequence of <<name, source map>> pairs with distinct names.             *)
(***************************************************************************)
\* a scan that keeps the path it found first for a name and environment
SetSource_keepFirst(source_map_by_name, config_name, app_mode, file_path) ==
    LET names == [i \in 1..Len(source_map_by_name) |-> source_map_by_name[i].name]
        at == IndexOf(names, config_name)
        withName ==
            IF at = 0
            THEN Append(source_map_by_name,
                        [name |-> config_name, source_by_app_mode |-> EmptyMap])
            ELSE source_map_by_name
        pos == IF at = 0 THEN Len(withName) ELSE at
    IN  IF app_mode \in DOMAIN withName[pos].source_by_app_mode THEN withName
        ELSE [withName EXCEPT ![pos].source_by_app_mode =
                Put(withName[pos].source_by_app_mode, app_mode, file_path)]

\* source_map_by_name[config_name][app_mode] = file_path
SetSource(source_map_by_name, config_name, app_mode, file_path) ==
    LET names == [i \in 1..Len(source_map_by_name) |-> source_map_by_name[i].name]
        at == IndexOf(names, config_name)
        withName ==
            IF at = 0
            THEN Append(source_map_by_name,
                        [name |-> config_name, source_by_app_mode |-> EmptyMap])
            ELSE source_map_by_name
        pos == IF at = 0 THEN Len(withName) ELSE at
    IN  [withName EXCEPT ![pos].source_by_app_mode =
            Put(withName[pos].source_by_app_mode, app_mode, file_path)]

\* a scan without the os.path.isfile test
ScanFile_anyEntry(source_map_by_name, filename) ==
    LET parts == Split(filename)
    IN  IF Len(parts) = 2 /\ parts[2] \in ConfigExtensionEnum
        THEN SetSource(source_map_by_name, parts[1], "prod", filename)
        ELSE IF Len(parts) = 3 /\ parts[2] \in AppModeEnum
                /\ parts[3] \in ConfigExtensionEnum
        THEN SetSource(source_map_by_name, parts[1], parts[2], filename)
        ELSE source_map_by_name

ScanFile(source_map_by_name, filename) ==
    LET parts == Split(filename)
    IN  IF ~IsFile(filename) THEN source_map_by_name
        ELSE IF Len(parts) = 1 THEN source_map_by_name
        ELSE IF Len(parts) = 2 THEN
            IF parts[2] \in ConfigExtensionEnum
            THEN SetSource(source_map_by_name, parts[1], "prod", filename)
            ELSE source_map_by_name
        ELSE IF Len(parts) = 3 THEN
            IF parts[2] \in AppModeEnum /\ parts[3] \in ConfigExtensionEnum
            THEN SetSource(source_map_by_name, parts[1], parts[2], filename)
            ELSE source_map_by_name
        ELSE source_map_by_name

RECURSIVE ScanFrom(_, _, _)
ScanFrom(source_map_by_name, listdir, i) ==
    IF i > Len(listdir) THEN source_map_by_name
    ELSE ScanFrom(ScanFile(source_map_by_name, listdir[i]), listdir, i + 1)

find_config_files(listdir) == ScanFrom(<<>>, listdir, 1)

\* Assembler._assign_config_ies: one ConfigIe per name of the scan
assign_config_ies(listdir) == find_config_files(listdir)

(***************************************************************************)
(* NamedIe.find_by_name: the first entry with the name; ValueError when    *)
(* there is none (found = FALSE).                                          *)
(***************************************************************************)
find_by_name(name, ies) ==
    LET names == [i \in 1..Len(ies) |-> ies[i].name]
        at == IndexOf(names, name)
    IN  IF at = 0 THEN [found |-> FALSE] ELSE [found |-> TRUE, ie |-> ies[at]]

(***************************************************************************)
(* ConfigIe.parse: the file of the active environment, else the production *)
(* file, else a resolution error; the override is merged on top and the    *)
(* root path injected.                                                     *)
(***************************************************************************)
ConfigIe_parse(config_ie, app_mode_enum, root_path, update_with) ==
    LET sources == config_ie.source_by_app_mode
        chosen == IF app_mode_enum \in DOMAIN sources THEN <<sources[app_mode_enum]>>
                  ELSE IF "prod" \in DOMAIN sources THEN <<sources["prod"]>>
                  ELSE <<>>
    IN  IF chosen = <<>>
        THEN [ok |-> FALSE, error |-> "ValueError", config |-> EmptyMap]
        ELSE [ok |-> TRUE, error |-> "",
              config |-> Put(Merge(LoadYaml(chosen[1]), update_with),
                             "root_path", root_path)]

\* a mode mapping that sends the helper and migration modes to production
app_mode_of_otherwiseProd(mode_enum) ==
    IF mode_enum.enum = "CLIRunEnum" THEN mode_enum.value ELSE "prod"

\* the AppModeEnum of a CLI mode: its own value for the run modes, dev
\* for all other modes
app_mode_of(mode_enum) ==
    IF mode_enum.enum = "CLIRunEnum" THEN mode_enum.value ELSE "dev"

\* extra_configs_by_name.get(name, None), None read as no override
extra_of(extra_configs_by_name, name) ==
    IF name \in DOMAIN extra_configs_by_name
    THEN extra_configs_by_name[name] ELSE EmptyMap

\* an _assemble_sv_config that always asks for the production file
assemble_sv_config_prodFirst(name, config_ies, mode_enum, root_dir, extra_configs_by_name) ==
    LET looked == find_by_name(name, config_ies)
    IN  IF ~looked.found
        THEN [ok |-> TRUE, error |-> "", config |-> EmptyMap]
        ELSE ConfigIe_parse(looked.ie, "prod", root_dir,
                            extra_of(extra_configs_by_name, name))

\* an _assemble_sv_config that treats a resolution error like a missing entry
assemble_sv_config_errorAsEmpty(name, config_ies, mode_enum, root_dir, extra_configs_by_name) ==
    LET looked == find_by_name(name, config_ies)
        parsed == ConfigIe_parse(looked.ie, app_mode_of(mode_enum), root_dir,
                                 extra_of(extra_configs_by_name, name))
    IN  IF ~looked.found \/ ~parsed.ok
        THEN [ok |-> TRUE, error |-> "", config |-> EmptyMap]
        ELSE parsed

\* an _assemble_sv_config that accepts only a file of the active environment
assemble_sv_config_noFallback(name, config_ies, mode_enum, root_dir, extra_configs_by_name) ==
    LET looked == find_by_name(name, config_ies)
    IN  IF ~looked.found
        THEN [ok |-> TRUE, error |-> "", config |-> EmptyMap]
        ELSE IF app_mode_of(mode_enum) \notin DOMAIN looked.ie.source_by_app_mode
        THEN [ok |-> FALSE, error |-> "ValueError", config |-> EmptyMap]
        ELSE ConfigIe_parse(looked.ie, app_mode_of(mode_enum), root_dir,
                            extra_of(extra_configs_by_name, name))

\* an _assemble_sv_config that applies the override to a missing entry too
assemble_sv_config_mergeOverride(name, config_ies, mode_enum, root_dir, extra_configs_by_name) ==
    LET looked == find_by_name(name, config_ies)
    IN  IF ~looked.found
        THEN [ok |-> TRUE, error |-> "",
              config |-> Merge(EmptyMap, extra_of(extra_configs_by_name, name))]
        ELSE ConfigIe_parse(looked.ie, app_mode_of(mode_enum), root_dir,
                            extra_of(extra_configs_by_name, name))

(***************************************************************************)
(* Assembler._assemble_sv_config (is_errors_enabled is never passed and    *)
(* stays False).                                                           *)
(***************************************************************************)
assemble_sv_config(name, config_ies, mode_enum, root_dir, extra_configs_by_name) ==
    LET looked == find_by_name(name, config_ies)
    IN  IF ~looked.found
        THEN [ok |-> TRUE, error |-> "", config |-> EmptyMap]
        ELSE ConfigIe_parse(looked.ie, app_mode_of(mode_enum), root_dir,
                            extra_of(extra_configs_by_name, name))

(***************************************************************************)
(* The Build Declaration.  Classes and functions are named by strings; a   *)
(* service or emitter class carries what its constructor does: whether it  *)
(* raises, and whether it asks the Singleton registry for the Assembler    *)
(* (as tests/app/dummy.py does).                                           *)
(***************************************************************************)
UserSv == [id |-> "blog.app.user.user_sv.UserSv", name |-> "UserSv",
           raises |-> FALSE, lookup |-> FALSE]
ChatSv == [id |-> "blog.app.chat.chat_sv.ChatSv", name |-> "ChatSv",
           raises |-> FALSE, lookup |-> TRUE]
BrokenSv == [id |-> "blog.app.broken.BrokenSv", name |-> "BrokenSv",
             raises |-> TRUE, lookup |-> FALSE]

\* a second class whose __name__ is UserSv, from another module
AccountUserSv == [id |-> "blog.app.account.user_sv.UserSv", name |-> "UserSv",
                  raises |-> FALSE, lookup |-> FALSE]

\* "admin" is a second descriptor for the class of "user"
SvIes == {[name |-> "user", sv_class |-> UserSv],
          [name |-> "admin", sv_class |-> UserSv],
          [name |-> "chat", sv_class |-> ChatSv],
          [name |-> "broken", sv_class |-> BrokenSv]}

\* endpoint "" is "no explicit endpoint"
ViewIes == {[name |-> "user", view_class |-> "UserView",
             route |-> "/user/<int:id>", endpoint |-> ""],
            [name |-> "chat", view_class |-> "ChatView",
             route |-> "/chat", endpoint |-> "chat"]}

ErrorIes == {[error_class |-> "Error", handler_function |-> "handle_error"],
             [error_class |-> "ChildError", handler_function |-> "handle_child"]}

EmtIes == {[emt_class |-> [name |-> "ChatEmt", raises |-> FALSE, lookup |-> TRUE]],
           [emt_class |-> [name |-> "BrokenEmt", raises |-> TRUE, lookup |-> FALSE]]}

SockIes == {[namespace |-> "/chat",
             handler_class |-> [name |-> "ChatSock", raises |-> FALSE, lookup |-> TRUE],
             error_handler |-> "handle_sock_error"]}

HookNames == {"ctx_processor_func", "each_request_func", "first_request_func"}

EmptyBuild ==
    [sv_ies |-> <<>>, view_ies |-> <<>>, error_ies |-> <<>>, emt_ies |-> <<>>,
     shell_processors |-> <<>>, cli_cmds |-> <<>>, sock_ies |-> <<>>,
     hooks |-> {}]

\* the pieces a Build Declaration is made of, one per descriptor or function
BuildItems ==
    [kind : {"sv_ies"}, val : SvIes] \cup [kind : {"view_ies"}, val : ViewIes]
        \cup [kind : {"error_ies"}, val : ErrorIes]
        \cup [kind : {"emt_ies"}, val : EmtIes]
        \cup [kind : {"sock_ies"}, val : SockIes]
        \cup [kind : {"shell_processors"}, val : {"import_std"}]
        \cup [kind : {"cli_cmds"}, val : {"cmd_seed"}]
        \cup [kind : {"hooks"}, val : HookNames]

RECURSIVE Pick(_, _)
Pick(items, kind) ==
    IF items = <<>> THEN <<>>
    ELSE IF items[1].kind = kind
         THEN <<items[1].val>> \o Pick(Tail(items), kind)
         ELSE Pick(Tail(items), kind)

BuildOf(items) ==
    [sv_ies |-> Pick(items, "sv_ies"), view_ies |-> Pick(items, "view_ies"),
     error_ies |-> Pick(items, "error_ies"), emt_ies |-> Pick(items, "emt_ies"),
     shell_processors |-> Pick(items, "shell_processors"),
     cli_cmds |-> Pick(items, "cli_cmds"), sock_ies |-> Pick(items, "sock_ies"),
     hooks |-> Range(Pick(items, "hooks"))]

\* every Build Declaration of at most MaxIes descriptors and functions
Builds == {BuildOf(items) : items \in SeqsUpTo(BuildItems, MaxIes)}

\* the declaration of puft/tests/integration/build.py
IntegrationBuild ==
    [EmptyBuild EXCEPT
        !.sv_ies = <<[name |-> "user", sv_class |-> UserSv],
                     [name |-> "chat", sv_class |-> ChatSv]>>,
        !.view_ies = <<[name |-> "user", view_class |-> "UserView",
                        route |-> "/user/<int:id>", endpoint |-> ""]>>,
        !.shell_processors = <<"import_std", "import_main">>,
        !.sock_ies = <<[namespace |-> "/chat",
                        handler_class |-> [name |-> "ChatSock", raises |-> FALSE,
                                           lookup |-> TRUE],
                        error_handler |-> "handle_sock_error"]>>]

\* a declaration with one entry in every list but the CLI commands
WideBuild ==
    [IntegrationBuild EXCEPT
        !.error_ies = <<[error_class |-> "ChildError", handler_function |-> "handle_child"],
                        [error_class |-> "Error", handler_function |-> "handle_error"]>>,
        !.emt_ies = <<[emt_class |-> [name |-> "ChatEmt", raises |-> FALSE,
                                      lookup |-> TRUE]]>>,
        !.hooks = HookNames]

CliBuild == [IntegrationBuild EXCEPT !.cli_cmds = <<"cmd_seed">>, !.sv_ies = <<>>]

CoreBuilds == {EmptyBuild, WideBuild, CliBuild}

\* two descriptors for one class, followed by a descriptor for another class
\* of the same __name__
ShadowBuild ==
    [EmptyBuild EXCEPT
        !.sv_ies = <<[name |-> "user", sv_class |-> UserSv],
                     [name |-> "admin", sv_class |-> UserSv],
                     [name |-> "account", sv_class |-> AccountUserSv]>>]

(***************************************************************************)
(* The other arguments of Assembler(...).                                  *)
(***************************************************************************)
RootDir == "/srv/app"

NoExtra == [n \in {} |-> EmptyMap]

SomeExtra ==
    [n \in {"puft", "db", "user", "log"} |->
        CASE n = "puft" -> [wildcard_builtin_error_handler_enabled |-> "False",
                            root_path |-> "/override"]
          [] n = "db" -> [db_uri |-> "sqlite:///:memory:"]
          [] n = "user" -> [k |-> "v"]
          [] n = "log" -> [rotation |-> "1 MB"]]

Extras == {NoExtra, SomeExtra}

\* a configuration directory with a file for every component
FullListing ==
    <<"db.dev.yaml", "db.yaml", "log.yaml", "puft.yaml", "socket.yaml", "user.yaml">>

CoreConfigs ==
    [listdir : {<<>>, FullListing, <<"socket.yaml">>},
     mode_enum : {[enum |-> "CLIRunEnum", value |-> "dev"],
                  [enum |-> "CLIRunEnum", value |-> "prod"]},
     extra_configs_by_name : Extras]

AllConfigs ==
    [listdir : Listings, mode_enum : CLIModeEnumUnion, extra_configs_by_name : Extras]

\* a directory with a development and a production file for two components
TaggedListing == <<"db.dev.yaml", "db.yaml", "log.dev.yaml", "log.yaml">>

TaggedConfigs ==
    [listdir : {TaggedListing, <<"log.dev.yaml">>}, mode_enum : CLIModeEnumUnion,
     extra_configs_by_name : Extras]

OddConfigs ==
    [listdir : OddListings, mode_enum : {[enum |-> "CLIRunEnum", value |-> "prod"]},
     extra_configs_by_name : {NoExtra}]

\* the inputs of one process, the directory and the arguments of
\* Assembler(...): every configuration with a few declarations, every
\* declaration with a few configurations
Inputs ==
    {[config |-> c, build |-> b] : c \in AllConfigs, b \in CoreBuilds}
        \cup {[config |-> c, build |-> b] :
                c \in CoreConfigs, b \in Builds \cup {IntegrationBuild, ShadowBuild}}
        \cup {[config |-> c, build |-> EmptyBuild] : c \in OddConfigs \cup TaggedConfigs}

(***************************************************************************)
(* The Host: puft.core.app.puft.Puft.                                      *)
(***************************************************************************)
\* str.upper() on the configuration keys in use
Upper(k) ==
    CASE k = "root_path" -> "ROOT_PATH"
      [] k = "src" -> "SRC"
      [] k = "wildcard_builtin_error_handler_enabled" ->
            "WILDCARD_BUILTIN_ERROR_HANDLER_ENABLED"
      [] k = "db_uri" -> "DB_URI"
      [] k = "k" -> "K"
      [] k = "level" -> "LEVEL"
      [] k = "rotation" -> "ROTATION"
      [] OTHER -> k

\* Puft._make_upper_keys; on a collision of upper-cased keys the later key
\* of the iteration wins, which is one of the colliding keys
make_upper_keys(mapping) ==
    [K \in {Upper(k) : k \in DOMAIN mapping} |->
        mapping[CHOOSE k \in DOMAIN mapping : Upper(k) = K]]

\* Puft._assign_defaults_to_config; the default paths are taken relative
\* to config['root_path']
assign_defaults_to_config(config) ==
    Merge([TEMPLATE_PATH |-> "src/app", STATIC_PATH |-> "src/assets",
           INSTANCE_PATH |-> "var"], config)

\* self.config.get('wildcard_builtin_error_handler_enabled', True)
wildcard_flag_of(config) ==
    IF "wildcard_builtin_error_handler_enabled" \in DOMAIN config
    THEN config["wildcard_builtin_error_handler_enabled"]
    ELSE "True"

NoPuft ==
    [config |-> EmptyMap, wildcard_builtin_error_handler_enabled |-> "True",
     mode_enum |-> "", host |-> "", port |-> 0, daemons |-> <<>>,
     views |-> <<>>, error_handlers |-> EmptyMap, registered_errors |-> <<>>,
     shell_processors |-> <<>>, cli_cmds |-> <<>>, native_app |-> ""]

\* an _init_app_daemons that binds all three wrappers, supplied or not
init_app_daemons_unconditional(hooks) ==
    <<"ctx_processor_func", "each_request_func", "first_request_func">>

\* Puft._init_app_daemons: the wrappers bound to the native app, in order;
\* hooks is the set of the hook functions that are not None
init_app_daemons(hooks) ==
    SelectSeq(<<"ctx_processor_func", "each_request_func", "first_request_func">>,
              LAMBDA h : h \in hooks)

\* Puft.__init__: the constructed Host
Puft_init(config, cell, hooks) ==
    IF "root_path" \notin DOMAIN config
    THEN [ok |-> FALSE, error |-> "KeyError", puft |-> NoPuft]
    ELSE LET upper == assign_defaults_to_config(make_upper_keys(config))
             flag == wildcard_flag_of(upper)
         IN  IF flag \notin {"True", "False"}
             THEN [ok |-> FALSE, error |-> "ValidationError", puft |-> NoPuft]
             ELSE [ok |-> TRUE, error |-> "",
                   puft |-> [NoPuft EXCEPT
                       !.config = upper,
                       !.wildcard_builtin_error_handler_enabled = flag,
                       !.mode_enum = cell.mode_enum.value,
                       !.host = cell.host, !.port = cell.port,
                       !.native_app = "Flask",
                       !.daemons = init_app_daemons(hooks)]]

\* ViewIe.get_transformed_route: an endpoint name derived from the route
get_transformed_route(route) == route

\* Puft.register_view; Flask's add_url_rule refuses a second view function
\* for an endpoint that is already taken
register_view(puft, view_ie) ==
    LET endpoint == IF view_ie.endpoint # "" THEN view_ie.endpoint
                    ELSE get_transformed_route(view_ie.route)
    IN  IF endpoint \in Range(puft.views)
        THEN [ok |-> FALSE, error |-> "AssertionError", puft |-> puft]
        ELSE [ok |-> TRUE, error |-> "",
              puft |-> [puft EXCEPT !.views = Append(@, endpoint)]]

\* Puft.register_error; Flask's register_error_handler keeps one handler
\* per exception class, the one registered last
register_error(puft, error_class, handler_function) ==
    [puft EXCEPT
        !.error_handlers = Put(@, error_class, handler_function),
        !.registered_errors = Append(@, <<error_class, handler_function>>)]

\* Puft.register_shell_processor
register_shell_processor(puft, shell_processors) ==
    [puft EXCEPT !.shell_processors = @ \o shell_processors]

\* Puft.register_cli_cmd: raises NotImplementedError
register_cli_cmd(puft, cmds) ==
    [ok |-> FALSE, error |-> "NotImplementedError", puft |-> puft]

\* Puft.postbuild: raises NotImplementedError
postbuild(puft) == [ok |-> FALSE, error |-> "NotImplementedError"]

\* Puft.get_native_app
get_native_app(puft) == puft.native_app

\* type(x) of a class object x is its metaclass
TypeOf(class) == "type"

(***************************************************************************)
(* Assembler: the pure parts of __init__ and of the build phases.          *)
(***************************************************************************)
DEFAULT_LOG_PARAMS_0 ==
    [path |-> "./var/logs/system.log", level |-> "DEBUG",
     format |-> "{time} | {level} | {extra} >> {message}",
     rotation |-> "10 MB", serialize |-> "False"]

PuftSvIe(mode_enum, host, port) ==
    [type |-> "PuftSvIe", name |-> "puft", sv_class |-> "Puft",
     mode_enum |-> mode_enum, host |-> host, port |-> port]
DbSvIe == [type |-> "DbSvIe", name |-> "db", sv_class |-> "Db"]
SocketSvIe == [type |-> "SocketSvIe", name |-> "socket", sv_class |-> "Socket"]

\* a discovery that appends the Realtime Layer before the Data Layer
assign_builtin_sv_ies_socketFirst(config_ies, mode_enum, host, port) ==
    LET withDb == config_ies # <<>> /\ find_by_name("db", config_ies).found
        withSocket == config_ies # <<>> /\ find_by_name("socket", config_ies).found
    IN  [builtin_sv_ies |->
            <<PuftSvIe(mode_enum, host, port)>>
                \o (IF withSocket THEN <<SocketSvIe>> ELSE <<>>)
                \o (IF withDb THEN <<DbSvIe>> ELSE <<>>),
         socket_enabled |-> withSocket]

\* a discovery that selects the Data Layer only when its entry has a file
\* the active environment can use
assign_builtin_sv_ies_modeAware(config_ies, mode_enum, host, port) ==
    LET db == find_by_name("db", config_ies)
        withDb == /\ config_ies # <<>>
                  /\ db.found
                  /\ {app_mode_of(mode_enum), "prod"}
                        \cap DOMAIN db.ie.source_by_app_mode # {}
        withSocket == config_ies # <<>> /\ find_by_name("socket", config_ies).found
    IN  [builtin_sv_ies |->
            <<PuftSvIe(mode_enum, host, port)>>
                \o (IF withDb THEN <<DbSvIe>> ELSE <<>>)
                \o (IF withSocket THEN <<SocketSvIe>> ELSE <<>>),
         socket_enabled |-> withSocket]

\* Assembler._assign_builtin_sv_ies
assign_builtin_sv_ies(config_ies, mode_enum, host, port) ==
    LET withDb == config_ies # <<>> /\ find_by_name("db", config_ies).found
        withSocket == config_ies # <<>> /\ find_by_name("socket", config_ies).found
    IN  [builtin_sv_ies |->
            <<PuftSvIe(mode_enum, host, port)>>
                \o (IF withDb THEN <<DbSvIe>> ELSE <<>>)
                \o (IF withSocket THEN <<SocketSvIe>> ELSE <<>>),
         socket_enabled |-> withSocket]

\* an __init__ that registers the engine only after _build_all
InitStatements_registerLast ==
    <<"load_build", "_assign_config_ies", "_assign_builtin_sv_ies",
      "assign_extra_configs", "_build_all", "_register_self_singleton">>

\* the statements of Assembler.__init__, in order
InitStatements ==
    <<"load_build", "_assign_config_ies", "_assign_builtin_sv_ies",
      "assign_extra_configs", "_register_self_singleton", "_build_all">>

\* a _build_all that registers the views before it builds the services
BuildAllOrder_viewsFirst ==
    <<"_build_log", "_build_views", "_build_svs", "_build_errors", "_build_emts",
      "_build_shell_processors", "_build_cli_cmds", "_build_socks", "postbuild">>

\* the calls of Assembler._build_all, in order; "postbuild" is the try block
BuildAllOrder ==
    <<"_build_log", "_build_svs", "_build_views", "_build_errors", "_build_emts",
      "_build_shell_processors", "_build_cli_cmds", "_build_socks", "postbuild">>

\* the calls of Assembler._build_svs, in order
BuildSvsOrder == <<"_run_builtin_sv_ies", "_run_custom_sv_ies">>

\* the steps of one phase: first and last mark where the phase starts and ends
StepsOfPhase(phase) ==
    IF phase = "_build_svs"
    THEN [i \in 1..Len(BuildSvsOrder) |->
            [step |-> BuildSvsOrder[i], phase |-> phase,
             first |-> (i = 1), last |-> (i = Len(BuildSvsOrder))]]
    ELSE <<[step |-> phase, phase |-> phase, first |-> TRUE, last |-> TRUE]>>

RECURSIVE StepsOfPhases(_)
StepsOfPhases(phases) ==
    IF phases = <<>> THEN <<>>
    ELSE StepsOfPhase(phases[1]) \o StepsOfPhases(Tail(phases))

RECURSIVE StepsOfStatements(_)
StepsOfStatements(statements) ==
    IF statements = <<>> THEN <<>>
    ELSE (IF statements[1] = "_build_all" THEN StepsOfPhases(BuildAllOrder)
          ELSE <<[step |-> statements[1], phase |-> "", first |-> FALSE,
                  last |-> FALSE]>>)
         \o StepsOfStatements(Tail(statements))

\* Assembler.__init__ as the sequence of steps one construction runs through
Program == StepsOfStatements(InitStatements)

\* a registration that leaves the registry as it was
register_self_singleton_noop(slot, self_id) == slot

\* Assembler._register_self_singleton: the registry slot after the call
register_self_singleton(slot, self_id) == self_id

\* SingletonMeta.__call__: the stored instance, if any, is returned instead
\* of constructing (0 is "no instance")
Singleton_call(slot) == IF slot # 0 THEN [construct |-> FALSE, instance |-> slot]
                        ELSE [construct |-> TRUE, instance |-> 0]

\* Singleton.instance(): the stored instance, or a failure when there is none
Singleton_instance(slot) == [ok |-> slot # 0, instance |-> slot]

\* Assembler._init_log_class: log_kwargs is the class attribute itself, so
\* the loop over config writes into DEFAULT_LOG_PARAMS
init_log_class(defaults, has_config, config) ==
    LET log_kwargs == IF has_config /\ DOMAIN config # {}
                      THEN Merge(defaults, config) ELSE defaults
    IN  [DEFAULT_LOG_PARAMS |-> log_kwargs, kwargs |-> log_kwargs]

\* the error_ies loop of Assembler._build_errors: is the base Error class
\* among the descriptors' classes
wildcard_specified(error_ies) ==
    \E i \in 1..Len(error_ies) : TypeOf(error_ies[i].error_class) = "Error"

RECURSIVE register_errors(_, _)
register_errors(puft, error_ies) ==
    IF error_ies = <<>> THEN puft
    ELSE register_errors(
            register_error(puft, error_ies[1].error_class,
                           error_ies[1].handler_function),
            Tail(error_ies))

\* Assembler._build_errors
build_errors(puft, error_ies) ==
    LET explicit == register_errors(puft, error_ies)
        withDefault == IF ~wildcard_specified(error_ies)
                       THEN register_error(explicit, "Error", "handle_wildcard_error")
                       ELSE explicit
    IN  IF withDefault.wildcard_builtin_error_handler_enabled = "True"
        THEN register_error(withDefault, "Exception", "handle_wildcard_builtin_error")
        ELSE withDefault

\* a _run_builtin_sv_ies that passes the materialized configuration as it is
builtin_config_asMaterialized(config, root_dir) == config

\* the config["root_path"] assignment of Assembler._run_builtin_sv_ies
builtin_config(config, root_dir) == Put(config, "root_path", root_dir)

\* a _run_custom_sv_ies that asks _assemble_sv_config to raise for a name
\* without an entry (is_errors_enabled = True)
custom_sv_config_errorsEnabled(name, config_ies, mode_enum, root_dir, extra_configs_by_name) ==
    IF config_ies # <<>>
    THEN IF find_by_name(name, config_ies).found
         THEN assemble_sv_config(name, config_ies, mode_enum, root_dir,
                                 extra_configs_by_name)
         ELSE [ok |-> FALSE, error |-> "ValueError", config |-> EmptyMap]
    ELSE [ok |-> TRUE, error |-> "", config |-> EmptyMap]

\* the sv_config of Assembler._run_custom_sv_ies
custom_sv_config(name, config_ies, mode_enum, root_dir, extra_configs_by_name) ==
    IF config_ies # <<>>
    THEN assemble_sv_config(name, config_ies, mode_enum, root_dir,
                            extra_configs_by_name)
    ELSE [ok |-> TRUE, error |-> "", config |-> EmptyMap]

\* the key of Assembler._custom_svs for a service class
custom_sv_key(sv_class) == sv_class.name

\* a _build_socks that does not look at socket_enabled
build_socks_enabled_anyway(sock_ies, socket_enabled) == sock_ies # <<>>

\* the condition of Assembler._build_socks
build_socks_enabled(sock_ies, socket_enabled) == sock_ies # <<>> /\ socket_enabled

\* a Data Layer left without its postponed setup
perform_db_postponed_setup_skipped(db, puft) == db

\* Assembler._perform_db_postponed_setup: self.db.setup(flask_app=...)
perform_db_postponed_setup(db, puft) ==
    [db EXCEPT !.setups = @ + 1, !.flask_app = get_native_app(puft)]

\* a _build_all that calls self.puft.postbuild() outside a try block
call_postbuild_uncaught(puft) == postbuild(puft)

\* the try block of Assembler._build_all around self.puft.postbuild()
call_postbuild(puft) ==
    LET res == postbuild(puft)
    IN  IF ~res.ok /\ res.error = "NotImplementedError"
        THEN [ok |-> TRUE, error |-> ""] ELSE res

(***************************************************************************)
(* Errors: puft.core.error.error.Error and the classes derived from it.    *)
(***************************************************************************)
\* the base class Error with its class-level defaults
Error ==
    [name |-> "Error", DEFAULT_MESSAGE |-> "Unknown error occured",
     DEFAULT_STATUS_CODE |-> 400]

\* class ChildError(Error): both class-level defaults overridden
ChildError ==
    [name |-> "ChildError",
     DEFAULT_MESSAGE |-> "Something bad happened in child error!",
     DEFAULT_STATUS_CODE |-> 405]

\* the constructor arguments the error_mock fixture carries
ErrorMock == [message |-> "Something bad happened!", status_code |-> 400]

\* the class object a class name denotes
ErrorClass(cls) == IF cls = ChildError.name THEN ChildError ELSE Error

ErrorClassNames == {Error.name, ChildError.name}

\* Optional constructor arguments: <<>> is "not given", <<v>> is "given v".
Messages ==
    {<<>>, <<ErrorMock.message>>, <<"Not found">>, <<"Forbidden">>,
     <<Error.DEFAULT_MESSAGE>>, <<ChildError.DEFAULT_MESSAGE>>}

StatusCodes ==
    {<<>>, <<ErrorMock.status_code>>, <<403>>, <<404>>, <<405>>, <<500>>}

\* a construction that takes the base class's defaults whatever the class
Error_init_baseDefaults(cls, message, status_code) ==
    [cls |-> cls,
     message |-> IF message = <<>> THEN Error.DEFAULT_MESSAGE ELSE message[1],
     status_code |-> IF status_code = <<>> THEN Error.DEFAULT_STATUS_CODE
                     ELSE status_code[1]]

\* Error.__init__(message=None, status_code=None), called on class cls:
\* an argument left out is taken from the defaults of the instance's class
Error_init(cls, message, status_code) ==
    [cls |-> cls,
     message |-> IF message = <<>> THEN ErrorClass(cls).DEFAULT_MESSAGE
                 ELSE message[1],
     status_code |-> IF status_code = <<>>
                     THEN ErrorClass(cls).DEFAULT_STATUS_CODE
                     ELSE status_code[1]]

\* Error.expose(): the instance as a mapping, under the key "error"
Error_expose(e) ==
    [error |-> [name |-> ErrorClass(e.cls).name, message |-> e.message,
                status_code |-> e.status_code]]

(***************************************************************************)
(* The state.                                                              *)
(***************************************************************************)
VARIABLES
    listdir,            \* os.listdir of the configuration directory
    args,               \* the arguments every Assembler(...) call passes
    instances,          \* SingletonMeta.instances[Assembler]; 0 is "no entry"
    DEFAULT_LOG_PARAMS, \* the class attribute Assembler.DEFAULT_LOG_PARAMS
    log,                \* the process-wide logger: its last log.configure
    calls,              \* number of Assembler(...) calls made so far
    returned,           \* the engine ids the finished calls returned
    engines,            \* number of engines whose __init__ was entered
    self,               \* the attributes of the engine under construction
    status,             \* "idle", "running", "done" or "aborted"
    ip,                 \* position in Program of the running __init__
    idx,                \* position in the list the current step loops over
    phaseLog,           \* history: the phases entered, in order
    phaseDone,          \* history: the phases left normally, in order
    built,              \* history: the components constructed, in order,
                        \* each with the configuration it was given
    lookups,            \* history: results of registry lookups by constructors
    error,              \* the exception that aborted the construction
    err,                \* the last Error(...) call and the instance it made
    exposed             \* what the last expose() of that instance returned

vars == <<listdir, args, instances, DEFAULT_LOG_PARAMS, log, calls, returned,
          engines, self, status, ip, idx, phaseLog, phaseDone, built, lookups,
          error, err, exposed>>

\* what no step of a construction touches
env == <<listdir, args, err, exposed>>

NoSelf ==
    [id |-> 0, assigned |-> {}, root_dir |-> RootDir,
     mode_enum |-> [enum |-> "", value |-> ""],
     extra_configs_by_name |-> NoExtra, socket_enabled |-> FALSE,
     build |-> EmptyBuild, config_ies |-> <<>>, builtin_sv_ies |-> <<>>,
     custom_svs |-> [n \in {} |-> 0], puft |-> NoPuft,
     db |-> [config |-> EmptyMap, setups |-> 0, flask_app |-> ""],
     socket |-> [config |-> EmptyMap, app |-> 0, namespaces |-> <<>>,
                 error_handlers |-> <<>>]]

\* the process before any call, its directory and arguments drawn from ins
InitWith(ins) ==
    /\ \E in \in ins :
        /\ listdir = in.config.listdir
        /\ args = [mode_enum |-> in.config.mode_enum, build |-> in.build,
                   extra_configs_by_name |-> in.config.extra_configs_by_name,
                   host |-> "localhost", port |-> 5000]
    /\ instances = 0
    /\ DEFAULT_LOG_PARAMS = DEFAULT_LOG_PARAMS_0
    /\ log = [configured |-> FALSE, kwargs |-> EmptyMap]
    /\ calls = 0
    /\ returned = <<>>
    /\ engines = 0
    /\ self = NoSelf
    /\ status = "idle"
    /\ ip = 0
    /\ idx = 0
    /\ phaseLog = <<>>
    /\ phaseDone = <<>>
    /\ built = <<>>
    /\ lookups = <<>>
    /\ error = ""
    /\ err = <<>>
    /\ exposed = <<>>

Init == InitWith(Inputs)

(***************************************************************************)
(* Control flow of one construction.                                       *)
(***************************************************************************)
Running == status = "running" /\ ip <= Len(Program)
At(step) == Running /\ Program[ip].step = step

\* the first step of a phase logs that the phase is entered
Begin ==
    phaseLog' = IF idx = 0 /\ Program[ip].first
                THEN Append(phaseLog, Program[ip].phase) ELSE phaseLog

\* the step is over and the next statement is reached
Finish ==
    /\ Begin
    /\ ip' = ip + 1
    /\ idx' = 0
    /\ phaseDone' = IF Program[ip].last
                    THEN Append(phaseDone, Program[ip].phase) ELSE phaseDone
    /\ UNCHANGED <<status, error>>

\* the loop of the step goes on with its next element
Continue ==
    /\ Begin
    /\ idx' = idx + 1
    /\ UNCHANGED <<status, ip, phaseDone, error>>

\* an exception leaves __init__
Abort(e) ==
    /\ Begin
    /\ status' = "aborted"
    /\ error' = e
    /\ UNCHANGED <<ip, idx, phaseDone>>

\* a loop that catches the error of an iteration and goes on
Flow_errorCaught(list, ok, e) ==
    IF idx + 1 >= Len(list) THEN Finish ELSE Continue

\* one iteration over list: abort on failure, else go on or finish
Flow(list, ok, e) ==
    IF ~ok THEN Abort(e)
    ELSE IF idx + 1 >= Len(list) THEN Finish ELSE Continue

\* what running the constructor of a caller's class does: a registry lookup
\* (Singleton.instance()) when the class makes one, then possibly a raise
CtorError(class) ==
    IF class.lookup /\ ~Singleton_instance(instances).ok THEN "SingletonError"
    ELSE IF class.raises THEN "RuntimeError"
    ELSE ""

CtorLookups(class) ==
    IF class.lookup THEN Append(lookups, Singleton_instance(instances).instance)
    ELSE lookups

(***************************************************************************)
(* Assembler(...): SingletonMeta.__call__ and Assembler.__init__.          *)
(***************************************************************************)
\* a call of Assembler(...): the registered instance is returned, or a new
\* engine is created and its __init__ entered
Call ==
    /\ status \in {"idle", "done", "aborted"}
    /\ calls < MaxCalls
    /\ calls' = calls + 1
    /\ IF Singleton_call(instances).construct
       THEN /\ engines' = engines + 1
            /\ self' = [NoSelf EXCEPT !.id = engines + 1]
            /\ status' = "running"
            /\ ip' = 1
            /\ idx' = 0
            /\ error' = ""
            /\ UNCHANGED returned
       ELSE /\ returned' = Append(returned, Singleton_call(instances).instance)
            /\ UNCHANGED <<engines, self, status, ip, idx, error>>
    /\ UNCHANGED <<env, instances, DEFAULT_LOG_PARAMS, log, phaseLog, phaseDone,
                   built, lookups>>

\* SingletonMeta.__call__ after __init__ returned: the new engine is stored
\* and returned
Return ==
    /\ status = "running"
    /\ ip > Len(Program)
    /\ instances' = self.id
    /\ returned' = Append(returned, self.id)
    /\ status' = "done"
    /\ UNCHANGED <<env, DEFAULT_LOG_PARAMS, log, calls, engines, self, ip, idx,
                   phaseLog, phaseDone, built, lookups, error>>

\* __init__, up to the assignments from self.build
LoadBuild ==
    /\ At("load_build")
    /\ self' = [self EXCEPT !.extra_configs_by_name = NoExtra,
                            !.root_dir = RootDir,
                            !.socket_enabled = FALSE,
                            !.mode_enum = args.mode_enum,
                            !.build = args.build,
                            !.assigned = @ \cup {"build"}]
    /\ Finish
    /\ UNCHANGED <<env, instances, DEFAULT_LOG_PARAMS, log, calls, returned,
                   engines, built, lookups>>

\* self._assign_config_ies(self.build.config_dir)
AssignConfigIes ==
    /\ At("_assign_config_ies")
    /\ self' = [self EXCEPT !.config_ies = assign_config_ies(listdir),
                            !.assigned = @ \cup {"config_ies"}]
    /\ Finish
    /\ UNCHANGED <<env, instances, DEFAULT_LOG_PARAMS, log, calls, returned,
                   engines, built, lookups>>

\* self._assign_builtin_sv_ies(mode_enum, host, port)
AssignBuiltinSvIes ==
    /\ At("_assign_builtin_sv_ies")
    /\ LET res == assign_builtin_sv_ies(self.config_ies, args.mode_enum,
                                        args.host, args.port)
       IN  self' = [self EXCEPT !.builtin_sv_ies = res.builtin_sv_ies,
                                !.socket_enabled = res.socket_enabled,
                                !.assigned = @ \cup {"builtin_sv_ies"}]
    /\ Finish
    /\ UNCHANGED <<env, instances, DEFAULT_LOG_PARAMS, log, calls, returned,
                   engines, built, lookups>>

\* self._custom_svs = {} and the extra_configs_by_name assignment
AssignExtraConfigs ==
    /\ At("assign_extra_configs")
    /\ self' = [self EXCEPT
            !.custom_svs = [n \in {} |-> 0],
            !.extra_configs_by_name =
                IF DOMAIN args.extra_configs_by_name # {}
                THEN args.extra_configs_by_name ELSE @,
            !.assigned = @ \cup {"_custom_svs"}]
    /\ Finish
    /\ UNCHANGED <<env, instances, DEFAULT_LOG_PARAMS, log, calls, returned,
                   engines, built, lookups>>

\* self._register_self_singleton()
RegisterSelfSingleton ==
    /\ At("_register_self_singleton")
    /\ instances' = register_self_singleton(instances, self.id)
    /\ Finish
    /\ UNCHANGED <<env, DEFAULT_LOG_PARAMS, log, calls, returned, engines, self,
                   built, lookups>>

(***************************************************************************)
(* Assembler._build_all: the build phases.                                 *)
(***************************************************************************)
\* _build_log and _init_log_class
BuildLog ==
    /\ At("_build_log")
    /\ LET looked == find_by_name("log", self.config_ies)
           parsed == IF looked.found
                     THEN ConfigIe_parse(looked.ie, app_mode_of(self.mode_enum),
                                         self.root_dir,
                                         extra_of(self.extra_configs_by_name, "log"))
                     ELSE [ok |-> TRUE, error |-> "", config |-> EmptyMap]
           res == init_log_class(DEFAULT_LOG_PARAMS, looked.found, parsed.config)
       IN  IF self.config_ies = <<>>
           THEN Finish /\ UNCHANGED <<DEFAULT_LOG_PARAMS, log>>
           ELSE IF ~parsed.ok
           THEN Abort(parsed.error) /\ UNCHANGED <<DEFAULT_LOG_PARAMS, log>>
           ELSE /\ DEFAULT_LOG_PARAMS' = res.DEFAULT_LOG_PARAMS
                /\ log' = [configured |-> TRUE, kwargs |-> res.kwargs]
                /\ Finish
    /\ UNCHANGED <<env, instances, calls, returned, engines, self, built, lookups>>

\* _run_builtin_sv_ies: one iteration of its loop
RunBuiltinSvIe ==
    /\ At("_run_builtin_sv_ies")
    /\ IF self.builtin_sv_ies = <<>>
       THEN Finish /\ UNCHANGED <<self, built>>
       ELSE
        LET cell == self.builtin_sv_ies[idx + 1]
            res == assemble_sv_config(cell.name, self.config_ies, self.mode_enum,
                                      self.root_dir, self.extra_configs_by_name)
            config == builtin_config(res.config, self.root_dir)
            host == Puft_init(config, cell, self.build.hooks)
            hasPuft == "puft" \in self.assigned
        IN  IF ~res.ok
            THEN Abort(res.error) /\ UNCHANGED <<self, built>>
            ELSE IF cell.type = "PuftSvIe"
            THEN IF host.ok
                 THEN /\ self' = [self EXCEPT !.puft = host.puft,
                                              !.assigned = @ \cup {"puft"}]
                      /\ built' = Append(built, [kind |-> "builtin", name |-> "puft", config |-> config])
                      /\ Flow(self.builtin_sv_ies, TRUE, "")
                 ELSE Abort(host.error) /\ UNCHANGED <<self, built>>
            ELSE IF cell.type = "DbSvIe"
            THEN \* Db(config=config), then self.db.setup(flask_app=...)
                 IF hasPuft
                 THEN /\ self' = [self EXCEPT
                            !.db = perform_db_postponed_setup(
                                      [config |-> config, setups |-> 0,
                                       flask_app |-> ""], self.puft),
                            !.assigned = @ \cup {"db"}]
                      /\ built' = built \o <<[kind |-> "builtin", name |-> "db",
                                              config |-> config],
                                             [kind |-> "setup", name |-> "db",
                                              config |-> EmptyMap]>>
                      /\ Flow(self.builtin_sv_ies, TRUE, "")
                 ELSE /\ self' = [self EXCEPT
                            !.db = [config |-> config, setups |-> 0,
                                    flask_app |-> ""],
                            !.assigned = @ \cup {"db"}]
                      /\ built' = Append(built, [kind |-> "builtin", name |-> "db",
                                                    config |-> config])
                      /\ Abort("AttributeError")
            ELSE \* Socket(config=config, app=self.puft)
                 IF hasPuft
                 THEN /\ self' = [self EXCEPT
                            !.socket = [config |-> config, app |-> self.id,
                                        namespaces |-> <<>>,
                                        error_handlers |-> <<>>],
                            !.assigned = @ \cup {"socket"}]
                      /\ built' = Append(built, [kind |-> "builtin", name |-> "socket",
                                                    config |-> config])
                      /\ Flow(self.builtin_sv_ies, TRUE, "")
                 ELSE Abort("AttributeError") /\ UNCHANGED <<self, built>>
    /\ UNCHANGED <<env, instances, DEFAULT_LOG_PARAMS, log, calls, returned,
                   engines, lookups>>

\* _run_custom_sv_ies: one iteration of its loop
RunCustomSvIe ==
    /\ At("_run_custom_sv_ies")
    /\ IF self.build.sv_ies = <<>>
       THEN Finish /\ UNCHANGED <<self, built, lookups>>
       ELSE
        LET cell == self.build.sv_ies[idx + 1]
            res == custom_sv_config(cell.name, self.config_ies, self.mode_enum,
                                    self.root_dir, self.extra_configs_by_name)
            e == CtorError(cell.sv_class)
            sv == [class |-> cell.sv_class.id, name |-> cell.name,
                   config |-> res.config]
        IN  IF ~res.ok
            THEN Abort(res.error) /\ UNCHANGED <<self, built, lookups>>
            ELSE /\ lookups' = CtorLookups(cell.sv_class)
                 /\ IF e # ""
                    THEN Abort(e) /\ UNCHANGED <<self, built>>
                    ELSE /\ self' = [self EXCEPT !.custom_svs =
                                Put(@, custom_sv_key(cell.sv_class), sv)]
                         /\ built' = Append(built, [kind |-> "custom",
                                                    name |-> cell.name,
                                                    config |-> res.config])
                         /\ Flow(self.build.sv_ies, TRUE, "")
    /\ UNCHANGED <<env, instances, DEFAULT_LOG_PARAMS, log, calls, returned,
                   engines>>

\* _build_views: one iteration of its loop
BuildViews ==
    /\ At("_build_views")
    /\ IF self.build.view_ies = <<>>
       THEN Finish /\ UNCHANGED self
       ELSE
        LET res == register_view(self.puft, self.build.view_ies[idx + 1])
        IN  /\ self' = [self EXCEPT !.puft = res.puft]
            /\ Flow(self.build.view_ies, res.ok, res.error)
    /\ UNCHANGED <<env, instances, DEFAULT_LOG_PARAMS, log, calls, returned,
                   engines, built, lookups>>

\* _build_errors
BuildErrors ==
    /\ At("_build_errors")
    /\ self' = [self EXCEPT !.puft = build_errors(@, self.build.error_ies)]
    /\ Finish
    /\ UNCHANGED <<env, instances, DEFAULT_LOG_PARAMS, log, calls, returned,
                   engines, built, lookups>>

\* _build_emts: one iteration of its loop
BuildEmts ==
    /\ At("_build_emts")
    /\ IF self.build.emt_ies = <<>>
       THEN Finish /\ UNCHANGED <<built, lookups>>
       ELSE
        LET cell == self.build.emt_ies[idx + 1]
            e == CtorError(cell.emt_class)
        IN  /\ lookups' = CtorLookups(cell.emt_class)
            /\ built' = IF e = ""
                        THEN Append(built, [kind |-> "emt",
                                            name |-> cell.emt_class.name,
                                            config |-> EmptyMap])
                        ELSE built
            /\ Flow(self.build.emt_ies, e = "", e)
    /\ UNCHANGED <<env, instances, DEFAULT_LOG_PARAMS, log, calls, returned,
                   engines, self>>

\* _build_shell_processors
BuildShellProcessors ==
    /\ At("_build_shell_processors")
    /\ self' = IF self.build.shell_processors # <<>>
               THEN [self EXCEPT !.puft =
                        register_shell_processor(@, self.build.shell_processors)]
               ELSE self
    /\ Finish
    /\ UNCHANGED <<env, instances, DEFAULT_LOG_PARAMS, log, calls, returned,
                   engines, built, lookups>>

\* _build_cli_cmds
BuildCliCmds ==
    /\ At("_build_cli_cmds")
    /\ IF self.build.cli_cmds # <<>>
       THEN LET res == register_cli_cmd(self.puft, self.build.cli_cmds)
            IN  /\ self' = [self EXCEPT !.puft = res.puft]
                /\ IF res.ok THEN Finish ELSE Abort(res.error)
       ELSE Finish /\ UNCHANGED self
    /\ UNCHANGED <<env, instances, DEFAULT_LOG_PARAMS, log, calls, returned,
                   engines, built, lookups>>

\* _build_socks: one iteration of its loop
BuildSocks ==
    /\ At("_build_socks")
    /\ IF ~build_socks_enabled(self.build.sock_ies, self.socket_enabled)
       THEN Finish /\ UNCHANGED <<self, built, lookups>>
       ELSE
        LET cell == self.build.sock_ies[idx + 1]
            e == CtorError(cell.handler_class)
        IN  /\ lookups' = CtorLookups(cell.handler_class)
            /\ IF e # ""
               THEN UNCHANGED <<self, built>>
               ELSE /\ self' = [self EXCEPT
                        !.socket.namespaces =
                            Append(@, <<cell.namespace, cell.handler_class.name>>),
                        !.socket.error_handlers =
                            Append(@, <<cell.namespace, cell.error_handler>>)]
                    /\ built' = Append(built, [kind |-> "sock",
                                               name |-> cell.handler_class.name,
                                               config |-> EmptyMap])
            /\ Flow(self.build.sock_ies, e = "", e)
    /\ UNCHANGED <<env, instances, DEFAULT_LOG_PARAMS, log, calls, returned,
                   engines>>

\* the try block around self.puft.postbuild()
Postbuild ==
    /\ At("postbuild")
    /\ LET res == call_postbuild(self.puft)
       IN  IF res.ok THEN Finish ELSE Abort(res.error)
    /\ UNCHANGED <<env, instances, DEFAULT_LOG_PARAMS, log, calls, returned,
                   engines, self, built, lookups>>

Next ==
    \/ Call
    \/ Return
    \/ LoadBuild
    \/ AssignConfigIes
    \/ AssignBuiltinSvIes
    \/ AssignExtraConfigs
    \/ RegisterSelfSingleton
    \/ BuildLog
    \/ RunBuiltinSvIe
    \/ RunCustomSvIe
    \/ BuildViews
    \/ BuildErrors
    \/ BuildEmts
    \/ BuildShellProcessors
    \/ BuildCliCmds
    \/ BuildSocks
    \/ Postbuild

Spec == Init /\ [][Next]_vars

(***************************************************************************)
(* Errors on their own: any class, constructed with any arguments, and     *)
(* exposed. No engine is constructed meanwhile.                            *)
(***************************************************************************)
assembler == <<listdir, args, instances, DEFAULT_LOG_PARAMS, log, calls,
               returned, engines, self, status, ip, idx, phaseLog, phaseDone,
               built, lookups, error>>

\* cls(message, status_code), each argument optional
Construct ==
    /\ \E cls \in ErrorClassNames, message \in Messages,
          status_code \in StatusCodes :
        err' = <<[call |-> [cls |-> cls, message |-> message,
                            status_code |-> status_code],
                  obj |-> Error_init(cls, message, status_code)]>>
    /\ exposed' = <<>>
    /\ UNCHANGED assembler

\* exposed = error.expose()
Expose ==
    /\ err # <<>>
    /\ exposed' = <<Error_expose(err[1].obj)>>
    /\ UNCHANGED <<assembler, err>>

ErrorNext ==
    \/ Construct
    \/ Expose

\* one process: which directory and arguments it has plays no part here
ErrorInit == InitWith({CHOOSE in \in Inputs : TRUE})

ErrorSpec == ErrorInit /\ [][ErrorNext]_vars

(***************************************************************************)
(* Properties.                                                             *)
(***************************************************************************)
\* the positions of built at which a component of this kind and name occurs
Built(kind, name) ==
    {i \in 1..Len(built) : built[i].kind = kind /\ built[i].name = name}

\* the resolver produced a Config Source Entry with this name
HasEntry(name) ==
    \E i \in 1..Len(self.config_ies) : self.config_ies[i].name = name

PhaseRan(phase) == phase \in Range(phaseDone)

\* C1: the build phases of a run are entered in the one fixed order logging,
\* services, views, errors, emitters, shell processors, CLI commands, socket
\* namespaces, post-build hook; a phase is entered only when all phases
\* before it have been left, no phase is entered twice, and a run that
\* completes has gone through all of them.
C1_PhaseOrder ==
    LET order == <<"_build_log", "_build_svs", "_build_views", "_build_errors",
                   "_build_emts", "_build_shell_processors", "_build_cli_cmds",
                   "_build_socks", "postbuild">>
    IN  /\ IsPrefix(phaseLog, order)
        /\ IsPrefix(phaseDone, phaseLog)
        /\ Len(phaseLog) <= Len(phaseDone) + 1
        /\ status = "done" => phaseDone = order

\* a completed run whose service, view and socket phases each took several steps
C1_Witness ==
    /\ status = "done"
    /\ Len(phaseDone) = 9
    /\ Len(self.build.sv_ies) = 2
    /\ Len(self.builtin_sv_ies) = 3

\* C2: the Host is constructed before the Data Layer and the Realtime Layer,
\* the Data Layer before the Realtime Layer, and every selected built-in
\* before the first custom service.
C2_BuiltinOrder ==
    /\ \A i \in Built("builtin", "db") \cup Built("builtin", "socket") :
            \E j \in Built("builtin", "puft") : j < i
    /\ \A i \in Built("builtin", "socket") :
            DbSvIe \in Range(self.builtin_sv_ies)
                => \E j \in Built("builtin", "db") : j < i
    /\ \A i \in 1..Len(built) : built[i].kind = "custom" =>
            /\ \A j \in 1..Len(built) : built[j].kind = "builtin" => j < i
            /\ \A k \in 1..Len(self.builtin_sv_ies) :
                    Built("builtin", self.builtin_sv_ies[k].name) # {}

\* Host, Data Layer, Realtime Layer and a custom service have been constructed
C2_Witness ==
    /\ Built("builtin", "puft") # {}
    /\ Built("builtin", "db") # {}
    /\ Built("builtin", "socket") # {}
    /\ \E i \in 1..Len(built) : built[i].kind = "custom"

\* C3: after built-in discovery the descriptor list is the Host descriptor,
\* followed by the Data Layer descriptor exactly when the resolver produced
\* an entry named "db", followed by the Realtime Layer descriptor exactly
\* when it produced an entry named "socket"; the mode, the environment tags
\* of the entry's files and the Build Declaration play no part.
C3_Discovery ==
    "builtin_sv_ies" \in self.assigned =>
        /\ self.builtin_sv_ies =
              <<PuftSvIe(args.mode_enum, args.host, args.port)>>
                  \o (IF HasEntry("db") THEN <<DbSvIe>> ELSE <<>>)
                  \o (IF HasEntry("socket") THEN <<SocketSvIe>> ELSE <<>>)
        /\ self.socket_enabled = HasEntry("socket")

\* the Data Layer is selected in a production run although the only file of
\* its entry is tagged for the test environment
C3_Witness ==
    /\ "builtin_sv_ies" \in self.assigned
    /\ listdir = <<"db.test.yaml">>
    /\ args.mode_enum = [enum |-> "CLIRunEnum", value |-> "prod"]
    /\ DbSvIe \in Range(self.builtin_sv_ies)

\* C4: one process constructs at most one engine: every call of the
\* constructor after the first returns the engine the first one registered,
\* and Host, Data Layer, Realtime Layer and each custom service descriptor
\* are constructed at most once.
C4_Singleton ==
    /\ engines <= 1
    /\ \A i \in 1..Len(returned) : returned[i] = 1
    /\ calls >= 2 /\ status \in {"done", "aborted"} => instances = 1
    /\ \A name \in {"puft", "db", "socket"} :
            Cardinality(Built("builtin", name)) <= 1
    /\ Cardinality({i \in 1..Len(built) : built[i].kind = "custom"})
            <= Len(args.build.sv_ies)

\* a second call made after a completed construction got the first engine
C4_Witness ==
    /\ calls = 2
    /\ status = "done"
    /\ returned = <<1, 1>>
    /\ Built("builtin", "puft") # {}

\* the state right after self._register_self_singleton() returned
JustRegistered ==
    /\ status = "running"
    /\ ip > 1
    /\ Program[ip - 1].step = "_register_self_singleton"
    /\ idx = 0

\* C5 as stated: at the moment of registration no build declaration has been
\* loaded, no configuration directory scanned, no discovery run and no
\* component constructed.
C5_RegisteredFirst ==
    JustRegistered =>
        /\ self.assigned \cap {"build", "config_ies", "builtin_sv_ies"} = {}
        /\ built = <<>>

\* C5, amended: the engine registers itself before any build phase is entered
\* and before any component is constructed, after it has loaded the build
\* declaration, scanned the configuration directory and run the discovery;
\* every phase runs with the engine registered.
C5_RegisteredBeforePhases ==
    /\ JustRegistered =>
        /\ {"build", "config_ies", "builtin_sv_ies"} \subseteq self.assigned
        /\ instances = self.id
        /\ phaseLog = <<>>
        /\ built = <<>>
        /\ ~log.configured
    /\ phaseLog # <<>> => instances = self.id

\* the engine has just registered itself, with a scanned non-empty directory
C5_Witness ==
    /\ JustRegistered
    /\ instances = self.id
    /\ self.config_ies # <<>>

\* C6: a registry lookup made by a constructor that runs inside a build
\* phase yields the engine under construction, and no second engine is
\* created.
C6_ReentrantLookup ==
    /\ \A i \in 1..Len(lookups) : lookups[i] = self.id
    /\ lookups # <<>> => engines = 1

\* lookups were made from the service phase and from a later phase of a
\* construction still in progress
C6_Witness ==
    /\ status = "running"
    /\ Len(lookups) >= 2
    /\ \E i \in 1..Len(built) : built[i].kind = "emt"

\* the construction has ended, normally or with an exception
Ended == status \in {"done", "aborted"}

\* the Build Declaration has no service, view or error descriptor
ZeroDeclaration ==
    /\ args.build.sv_ies = <<>>
    /\ args.build.view_ies = <<>>
    /\ args.build.error_ies = <<>>

\* C7 as stated, for the runs in which the configuration of every selected
\* built-in resolves and no constructor of the caller raises: assembly of a
\* declaration without services, views and error descriptors completes, and
\* a handler for the base error type is then registered on the Host.
C7_EmptyDeclarationCompletes ==
    (/\ ZeroDeclaration
     /\ Ended
     /\ error \notin {"ValueError", "RuntimeError"}) =>
        /\ status = "done"
        /\ "Error" \in DOMAIN self.puft.error_handlers

\* the descriptors of the Build Declaration that name the base error type
BaseErrorIes ==
    {i \in 1..Len(args.build.error_ies) :
        args.build.error_ies[i].error_class = "Error"}

\* C8 as stated: after the error phase the default handler has been
\* registered for the base error type only if no descriptor names the base
\* error type, and when one does, the handler in effect for the base error
\* type is the caller's.
C8_DefaultOnlyWithoutExplicit ==
    PhaseRan("_build_errors") =>
        /\ (<<"Error", "handle_wildcard_error">> \in Range(self.puft.registered_errors))
              => (BaseErrorIes = {})
        /\ \A i \in BaseErrorIes :
              (\A j \in BaseErrorIes : j <= i) =>
                  self.puft.error_handlers["Error"]
                      = args.build.error_ies[i].handler_function

\* the "wildcard builtin error handler" flag of the configuration the Host
\* was constructed with, true when the configuration does not set it
ConfiguredFlag ==
    LET given == {i \in Built("builtin", "puft") :
                    "wildcard_builtin_error_handler_enabled"
                        \in DOMAIN built[i].config}
    IN  IF given = {} THEN "True"
        ELSE built[CHOOSE i \in given : TRUE].config[
                "wildcard_builtin_error_handler_enabled"]

\* C9 as stated: after the error phase a handler for the universal exception
\* type is registered exactly when the flag of the Host's configuration is
\* enabled.
C9_FlagDecides ==
    PhaseRan("_build_errors") =>
        ("Exception" \in DOMAIN self.puft.error_handlers
            <=> ConfiguredFlag = "True")

\* the override the caller gave for a component name
OverrideOf(name) == extra_of(args.extra_configs_by_name, name)

\* the built-in and custom components constructed without a Config Source
\* Entry of their name
BuiltWithoutEntry ==
    {i \in 1..Len(built) :
        built[i].kind \in {"builtin", "custom"} /\ ~HasEntry(built[i].name)}

\* C10 as stated: a component without a Config Source Entry is constructed
\* with the caller's override for its name merged onto an empty base plus
\* the injected root path.
C10_OverridePlusRootPath ==
    \A i \in BuiltWithoutEntry :
        built[i].config = Put(Merge(EmptyMap, OverrideOf(built[i].name)),
                              "root_path", self.root_dir)

\* C10, amended: materializing a component name without a Config Source
\* Entry never fails and yields the empty mapping, whatever override the
\* caller gave for the name; a built-in is then constructed with the injected
\* root path alone, a custom service with the empty mapping.
C10_EmptyWithoutEntry ==
    /\ \A i \in BuiltWithoutEntry :
        built[i].config = IF built[i].kind = "builtin"
                          THEN [root_path |-> self.root_dir] ELSE EmptyMap
    /\ status = "aborted" /\ error = "ValueError" /\ ip <= Len(Program) =>
        \A name \in IF Program[ip].step = "_run_builtin_sv_ies"
                    THEN {self.builtin_sv_ies[idx + 1].name}
                    ELSE IF Program[ip].step = "_run_custom_sv_ies"
                    THEN {self.build.sv_ies[idx + 1].name}
                    ELSE {} : HasEntry(name)

\* a custom service and the Host were constructed without an entry of their
\* name although the caller gave an override for both, from a directory
\* that yielded other entries
C10_Witness ==
    /\ \E i \in BuiltWithoutEntry :
        built[i].kind = "custom" /\ DOMAIN OverrideOf(built[i].name) # {}
    /\ \E i \in BuiltWithoutEntry :
        built[i].kind = "builtin" /\ DOMAIN OverrideOf(built[i].name) # {}
    /\ self.config_ies # <<>>

\* the construction is, or was when it aborted, in this step of __init__
InStep(step) == ip \in 1..Len(Program) /\ Program[ip].step = step

\* the custom services constructed so far, as positions of built
Customs == {i \in 1..Len(built) : built[i].kind = "custom"}

\* the service descriptor has no Config Source Entry of its name and the
\* caller gave no override for the name
Unconfigured(cell) == ~HasEntry(cell.name) /\ DOMAIN OverrideOf(cell.name) = {}

\* C11: a custom service whose name has no Config Source Entry and no
\* override is constructed with the empty mapping; the absence raises no
\* error: the loop over the service descriptors stops at such a descriptor
\* only when its constructor raises, and otherwise goes on with the next
\* descriptor.
C11_UnconfiguredServiceGetsEmpty ==
    InStep("_run_custom_sv_ies") =>
        /\ \A k \in 1..Cardinality(Customs) :
              LET i == CHOOSE i \in Customs :
                        Cardinality({j \in Customs : j <= i}) = k
              IN  /\ built[i].name = self.build.sv_ies[k].name
                  /\ Unconfigured(self.build.sv_ies[k]) => built[i].config = EmptyMap
        /\ status = "running" => Cardinality(Customs) = idx
        /\ status = "aborted" /\ Unconfigured(self.build.sv_ies[idx + 1]) =>
              /\ Cardinality(Customs) = idx
              /\ error \in {"RuntimeError", "SingletonError"}
              /\ CtorError(self.build.sv_ies[idx + 1].sv_class) = error

\* two services without entry and override were constructed one after the
\* other, from a directory that yielded entries for other names
C11_Witness ==
    /\ Cardinality(Customs) = 2
    /\ Unconfigured(self.build.sv_ies[1])
    /\ Unconfigured(self.build.sv_ies[2])
    /\ \A i \in Customs : built[i].config = EmptyMap
    /\ self.config_ies # <<>>

\* the positions of the service descriptors declared for this class
DescriptorsOf(class) ==
    {k \in 1..Len(args.build.sv_ies) : args.build.sv_ies[k].sv_class = class}

\* the classes that two service descriptors of different names share
SharedClasses ==
    {args.build.sv_ies[k].sv_class : k \in
        {k \in 1..Len(args.build.sv_ies) :
            \E j \in DescriptorsOf(args.build.sv_ies[k].sv_class) :
                args.build.sv_ies[j].name # args.build.sv_ies[k].name}}

\* the slots of the custom-service mapping that hold an instance of this class
SlotsOf(class) ==
    {key \in DOMAIN self.custom_svs : self.custom_svs[key].class = class.id}

\* C12 as stated: once the custom-service step is over, every service
\* descriptor has been constructed, in declaration order, and for a class
\* that two descriptors of different names share the custom-service mapping
\* holds exactly one instance of the class, the one built from the last of
\* its descriptors.
C12_LastWinsForSharedType ==
    PhaseRan("_build_svs") =>
        /\ Cardinality(Customs) = Len(args.build.sv_ies)
        /\ \A i, j \in Customs :
              i < j => \E k, l \in 1..Len(args.build.sv_ies) :
                         /\ k < l
                         /\ built[i].name = args.build.sv_ies[k].name
                         /\ built[j].name = args.build.sv_ies[l].name
        /\ \A class \in SharedClasses :
              /\ Cardinality(SlotsOf(class)) = 1
              /\ \A key \in SlotsOf(class) :
                    \E k \in DescriptorsOf(class) :
                        /\ \A j \in DescriptorsOf(class) : j <= k
                        /\ self.custom_svs[key].name = args.build.sv_ies[k].name

\* the (name, environment) pairs a directory entry stands for: name.ext is
\* the production file of name, name.envtag.ext its file for envtag, any
\* other entry stands for nothing
Registered(filename) ==
    LET parts == Split(filename)
    IN  IF ~IsFile(filename) THEN {}
        ELSE IF Len(parts) = 2 /\ parts[2] \in ConfigExtensionEnum
        THEN {<<parts[1], "prod">>}
        ELSE IF Len(parts) = 3 /\ parts[2] \in AppModeEnum
                /\ parts[3] \in ConfigExtensionEnum
        THEN {<<parts[1], parts[2]>>}
        ELSE {}

\* the directory has a file that registers a component of this name
HasFileFor(name) ==
    \E i \in 1..Len(listdir) : \E pair \in Registered(listdir[i]) : pair[1] = name

\* C13: without a file that registers "socket" the Realtime Layer is never
\* constructed and no namespace handler and no error handler is bound,
\* whatever socket descriptors are declared; with the Realtime Layer
\* selected, the finished socket phase has bound, for each socket descriptor
\* in order, its handler class and its error handler to the descriptor's
\* namespace.
C13_SocketPhaseOnlyWhenSelected ==
    /\ ~HasFileFor("socket") =>
        /\ Built("builtin", "socket") = {}
        /\ "socket" \notin self.assigned
        /\ self.socket.namespaces = <<>>
        /\ self.socket.error_handlers = <<>>
        /\ \A i \in 1..Len(built) : built[i].kind # "sock"
    /\ HasFileFor("socket") /\ PhaseRan("_build_socks") =>
        /\ Built("builtin", "socket") # {}
        /\ self.socket.namespaces =
              [k \in 1..Len(args.build.sock_ies) |->
                  <<args.build.sock_ies[k].namespace,
                    args.build.sock_ies[k].handler_class.name>>]
        /\ self.socket.error_handlers =
              [k \in 1..Len(args.build.sock_ies) |->
                  <<args.build.sock_ies[k].namespace,
                    args.build.sock_ies[k].error_handler>>]

\* the socket phase is over and bound nothing although a socket descriptor
\* is declared, in a directory with files for other components
C13_Witness ==
    /\ PhaseRan("_build_socks")
    /\ args.build.sock_ies # <<>>
    /\ listdir # <<>>
    /\ ~HasFileFor("socket")
    /\ self.socket.namespaces = <<>>

\* C14: a selected Data Layer is constructed with its materialized
\* configuration and then set up exactly once with the Host's serving
\* handle; the setup directly follows the construction, comes after the
\* construction of the Host and before that of the Realtime Layer and of
\* every custom service; without a file that registers "db" there is no
\* Data Layer and no setup.
C14_DbTwoPhase ==
    /\ \A i \in Built("builtin", "db") :
        /\ built[i].config =
              Put(assemble_sv_config("db", self.config_ies, self.mode_enum,
                                     self.root_dir,
                                     self.extra_configs_by_name).config,
                  "root_path", self.root_dir)
        /\ self.db.config = built[i].config
        /\ Built("setup", "db") = {i + 1}
        /\ self.db.setups = 1
        /\ self.db.flask_app = self.puft.native_app
        /\ self.db.flask_app # ""
    /\ \A j \in Built("setup", "db") :
        /\ \E h \in Built("builtin", "puft") : h < j
        /\ \E d \in Built("builtin", "db") : d < j
        /\ \A k \in Built("builtin", "socket") \cup Customs : j < k
    /\ ~HasFileFor("db") =>
        /\ Built("builtin", "db") = {}
        /\ Built("setup", "db") = {}
        /\ self.db.setups = 0

\* Host, Data Layer with its setup, Realtime Layer and a custom service exist
C14_Witness ==
    /\ Built("setup", "db") # {}
    /\ self.db.setups = 1
    /\ Built("builtin", "socket") # {}
    /\ Customs # {}

\* the phase has been entered, so its first step has been executed
PhaseEntered(phase) == phase \in Range(phaseLog)

\* C15: the "not implemented" signal of the Host's post-build hook is
\* swallowed: a construction that reaches the hook call never aborts there
\* and completes; the same signal raised by an earlier phase (the CLI
\* command registration) is not caught: it aborts the construction in that
\* phase, and that phase remains the last one entered.
C15_NotImplementedCaughtOnlyAtPostbuild ==
    /\ status = "aborted" => ~InStep("postbuild")
    /\ PhaseRan("_build_socks") => status \in {"running", "done"}
    /\ PhaseRan("postbuild") =>
        /\ postbuild(self.puft).error = "NotImplementedError"
        /\ error = ""
    /\ PhaseEntered("_build_cli_cmds") /\ args.build.cli_cmds # <<>> =>
        /\ status = "aborted"
        /\ error = "NotImplementedError"
        /\ InStep("_build_cli_cmds")
        /\ Last(phaseLog) = "_build_cli_cmds"
        /\ ~PhaseRan("_build_cli_cmds")
    /\ status = "aborted" /\ error = "NotImplementedError" =>
        InStep("_build_cli_cmds")

\* a construction completed, its hook call having raised "not implemented"
C15_Witness ==
    /\ status = "done"
    /\ PhaseRan("postbuild")
    /\ postbuild(self.puft).error = "NotImplementedError"
    /\ self.puft.native_app # ""

\* C16 as stated: once the shell and CLI phases have been entered, every
\* shell-context processor and every CLI command of the Build Declaration is
\* attached to the Host and the construction has gone on past the CLI phase,
\* so it does not end in it.
C16_CliPhaseAttachesAll ==
    /\ PhaseEntered("_build_shell_processors") =>
        self.puft.shell_processors = args.build.shell_processors
    /\ PhaseEntered("_build_cli_cmds") =>
        /\ self.puft.cli_cmds = args.build.cli_cmds
        /\ PhaseRan("_build_cli_cmds")
        /\ ~(status = "aborted" /\ InStep("_build_cli_cmds"))

\* the emitters constructed so far, as positions of built
Emts == {i \in 1..Len(built) : built[i].kind = "emt"}

\* C17: an error raised while a custom service is constructed, a view is
\* registered or an emitter is constructed ends the construction there: the
\* descriptors before the failing one are the only ones of the phase that
\* were handled, the phase is not left and stays the last one entered, the
\* call of the constructor returns no engine; a phase that was left handled
\* all its descriptors without error.
C17_DescriptorErrorAborts ==
    /\ status = "aborted" /\ (\/ InStep("_run_custom_sv_ies")
                              \/ InStep("_build_views")
                              \/ InStep("_build_emts")) =>
        /\ Last(phaseLog) = Program[ip].phase
        /\ Program[ip].phase \notin Range(phaseDone)
        /\ Len(phaseDone) = Len(phaseLog) - 1
        /\ InStep("_run_custom_sv_ies") => Cardinality(Customs) = idx
        /\ InStep("_build_views") => Len(self.puft.views) = idx
        /\ InStep("_build_emts") => Cardinality(Emts) = idx
        /\ Len(returned) = calls - 1
        /\ error # ""
    /\ PhaseRan("_build_svs") =>
        /\ Cardinality(Customs) = Len(args.build.sv_ies)
        /\ \A k \in 1..Len(args.build.sv_ies) :
              ~args.build.sv_ies[k].sv_class.raises
    /\ PhaseRan("_build_views") =>
        /\ Len(self.puft.views) = Len(args.build.view_ies)
        /\ Cardinality(Range(self.puft.views)) = Len(args.build.view_ies)
    /\ PhaseRan("_build_emts") =>
        /\ Cardinality(Emts) = Len(args.build.emt_ies)
        /\ \A k \in 1..Len(args.build.emt_ies) :
              ~args.build.emt_ies[k].emt_class.raises
    /\ status = "done" =>
        /\ PhaseRan("_build_svs") /\ PhaseRan("_build_views")
        /\ PhaseRan("_build_emts")

\* the second emitter raised after the first was constructed, and a later
\* call of the constructor has been made
C17_Witness ==
    /\ status = "aborted"
    /\ InStep("_build_emts")
    /\ idx = 1
    /\ Cardinality(Emts) = 1
    /\ error = "RuntimeError"
    /\ calls = 2

\* the (name, environment) pairs of the resolver's output
ResolvedPairs ==
    UNION {{<<self.config_ies[i].name, mode>> :
                mode \in DOMAIN self.config_ies[i].source_by_app_mode} :
           i \in 1..Len(self.config_ies)}

\* C18: the resolver's output has the pair (name, environment) exactly for
\* the regular files named name.ext (production) or name.envtag.ext with a
\* recognized tag and extension; everything else in the directory is skipped
\* and the scan never raises; every name of the output has a file for at
\* least one environment and occurs once.
C18_ResolverGrammar ==
    /\ "config_ies" \in self.assigned =>
        /\ ResolvedPairs = UNION {Registered(listdir[k]) : k \in 1..Len(listdir)}
        /\ \A i \in 1..Len(self.config_ies) :
              /\ DOMAIN self.config_ies[i].source_by_app_mode # {}
              /\ \A j \in 1..Len(self.config_ies) :
                    self.config_ies[i].name = self.config_ies[j].name => i = j
    /\ status = "aborted" => ~InStep("_assign_config_ies")

\* a directory of one configuration file and one entry of another kind has
\* been scanned
C18_Witness ==
    /\ "config_ies" \in self.assigned
    /\ Len(listdir) = 2
    /\ \E k \in 1..2 : Registered(listdir[k]) = {}
    /\ Cardinality(ResolvedPairs) = 1

\* the positions of the listing whose file stands for this pair
FilesOf(name, mode) ==
    {k \in 1..Len(listdir) : <<name, mode>> \in Registered(listdir[k])}

\* C19: for every (name, environment) pair of the resolver's output the one
\* path kept is that of the last file of the listing that stands for the
\* pair, whatever other files the listing has.
C19_LastScannedWins ==
    "config_ies" \in self.assigned =>
        \A i \in 1..Len(self.config_ies) :
            \A mode \in DOMAIN self.config_ies[i].source_by_app_mode :
                LET files == FilesOf(self.config_ies[i].name, mode)
                IN  /\ files # {}
                    /\ \E k \in files :
                          /\ \A j \in files : j <= k
                          /\ self.config_ies[i].source_by_app_mode[mode]
                                = listdir[k]

\* an environment-less file and a file tagged prod of one name were scanned
C19_Witness ==
    /\ "config_ies" \in self.assigned
    /\ Cardinality(FilesOf("db", "prod")) = 2
    /\ self.config_ies[1].source_by_app_mode["prod"] = listdir[2]

\* the Config Source Entry of the name has a production file and no other
ProdOnly(name) ==
    \E i \in 1..Len(self.config_ies) :
        /\ self.config_ies[i].name = name
        /\ DOMAIN self.config_ies[i].source_by_app_mode = {"prod"}

\* the production file of the name's Config Source Entry
ProdFileOf(name) ==
    LET i == CHOOSE i \in 1..Len(self.config_ies) : self.config_ies[i].name = name
    IN  self.config_ies[i].source_by_app_mode["prod"]

\* C20: a component whose Config Source Entry has only a production file is
\* constructed, under every mode, with the content of that file, the
\* caller's override merged on top and the root path injected; materializing
\* such a name never ends the construction with a resolution error.
C20_Fallback ==
    /\ \A i \in 1..Len(built) :
          built[i].kind \in {"builtin", "custom"} /\ ProdOnly(built[i].name) =>
              built[i].config =
                  Put(Merge(LoadYaml(ProdFileOf(built[i].name)),
                            OverrideOf(built[i].name)),
                      "root_path", self.root_dir)
    /\ status = "aborted" /\ error = "ValueError" =>
          /\ InStep("_run_builtin_sv_ies") =>
                ~ProdOnly(self.builtin_sv_ies[idx + 1].name)
          /\ InStep("_run_custom_sv_ies") =>
                ~ProdOnly(self.build.sv_ies[idx + 1].name)
          /\ InStep("_build_log") => ~ProdOnly("log")

\* under a mode other than a production run, the Data Layer and a custom
\* service were constructed from the production files of their names
C20_Witness ==
    /\ app_mode_of(args.mode_enum) # "prod"
    /\ \E i \in Built("builtin", "db") :
          ProdOnly("db") /\ built[i].config.src = "db.yaml"
    /\ \E i \in Customs :
          ProdOnly(built[i].name) /\ built[i].config.src = "user.yaml"

\* the environment tag of the process mode: the mode itself for the serving
\* modes dev, test and prod, dev for every helper and migration mode
ActiveTag ==
    CASE args.mode_enum.value = "dev" -> "dev"
      [] args.mode_enum.value = "test" -> "test"
      [] args.mode_enum.value = "prod" -> "prod"
      [] args.mode_enum.value \in {"shell", "cmd", "deploy"} -> "dev"
      [] args.mode_enum.value \in {"init", "migrate", "upgrade"} -> "dev"

\* the files of the name's Config Source Entry, by environment tag
SourcesOf(name) ==
    LET i == CHOOSE i \in 1..Len(self.config_ies) : self.config_ies[i].name = name
    IN  self.config_ies[i].source_by_app_mode

\* the built-in and custom components constructed so far
Components == {i \in 1..Len(built) : built[i].kind \in {"builtin", "custom"}}

\* C21: a component whose Config Source Entry has a file for the active
\* environment and a production file is constructed from the file of the
\* active environment (with override and root path), and outside production
\* never from the production file.
C21_Specificity ==
    \A i \in Components :
        (/\ HasEntry(built[i].name)
         /\ {ActiveTag, "prod"} \subseteq DOMAIN SourcesOf(built[i].name)) =>
            /\ built[i].config =
                  Put(Merge(LoadYaml(SourcesOf(built[i].name)[ActiveTag]),
                            OverrideOf(built[i].name)),
                      "root_path", self.root_dir)
            /\ ActiveTag # "prod" =>
                  built[i].config.src # SourcesOf(built[i].name)["prod"]

\* a development run built the Data Layer from db.dev.yaml although db.yaml
\* is there too
C21_Witness ==
    /\ ActiveTag = "dev"
    /\ HasEntry("db")
    /\ DOMAIN SourcesOf("db") = {"dev", "prod"}
    /\ \E i \in Built("builtin", "db") : built[i].config.src = "db.dev.yaml"

\* the name has a Config Source Entry, but neither a file for the active
\* environment nor a production file
Unresolvable(name) ==
    HasEntry(name) /\ {ActiveTag, "prod"} \cap DOMAIN SourcesOf(name) = {}

\* C22: a component whose entry has neither a file for the active
\* environment nor a production file is never constructed, from no file; the
\* resolution error ends the construction at that component: once the loop
\* over the built-ins has come to an unresolvable one, the construction has
\* aborted there, with no later built-in and no custom service constructed,
\* the service phase unfinished and no later phase entered.
C22_ResolutionErrorAborts ==
    /\ \A i \in Components : ~Unresolvable(built[i].name)
    /\ \A k \in 1..Len(self.builtin_sv_ies) :
        (/\ Unresolvable(self.builtin_sv_ies[k].name)
         /\ PhaseEntered("_build_svs")
         /\ ~(status = "running" /\ InStep("_run_builtin_sv_ies") /\ idx < k)) =>
            /\ status = "aborted"
            /\ error = "ValueError"
            /\ InStep("_run_builtin_sv_ies")
            /\ idx = k - 1
            /\ Cardinality(Components) = k - 1
            /\ Customs = {}
            /\ Last(phaseLog) = "_build_svs"
            /\ ~PhaseRan("_build_svs")
    /\ (/\ status = "aborted"
         /\ InStep("_run_custom_sv_ies")
         /\ Unresolvable(self.build.sv_ies[idx + 1].name)) =>
            /\ error = "ValueError"
            /\ Cardinality(Customs) = idx

\* a production run selected the Data Layer for its db.test.yaml and ended
\* with the resolution error after the Host was constructed
C22_Witness ==
    /\ status = "aborted"
    /\ error = "ValueError"
    /\ ActiveTag = "prod"
    /\ listdir = <<"db.test.yaml">>
    /\ Unresolvable("db")
    /\ Built("builtin", "puft") # {}
    /\ args.build.sv_ies # <<>>

\* the materialized configuration of the name "log"
LogConfig ==
    Put(Merge(LoadYaml(IF ActiveTag \in DOMAIN SourcesOf("log")
                       THEN SourcesOf("log")[ActiveTag]
                       ELSE SourcesOf("log")["prod"]),
              OverrideOf("log")),
        "root_path", self.root_dir)

\* C23 as stated: once the logging phase is over the process-wide logger is
\* configured: with exactly the default parameter set when there is no "log"
\* entry (also when the directory yielded no entry at all), else with the
\* keys of the "log" configuration merged onto the defaults; the absence of
\* a "log" entry never ends the construction.
C23_LoggerConfiguredInEveryRun ==
    /\ PhaseRan("_build_log") =>
        /\ log.configured
        /\ log.kwargs = IF HasEntry("log")
                         THEN Merge(DEFAULT_LOG_PARAMS_0, LogConfig)
                         ELSE DEFAULT_LOG_PARAMS_0
    /\ status = "aborted" /\ InStep("_build_log") => HasEntry("log")

\* C24: for the base error class and every class derived from it, exposing
\* an instance yields a mapping with the key "error" whose name is the name
\* of the instance's own class, whose message is the message given at
\* construction or else that class's default message, and whose status
\* code is the one given at construction or else that class's default.
C24_ExposeNamesClassAndDefaults ==
    exposed # <<>> =>
        LET call == err[1].call
            cls  == ErrorClass(call.cls)
            e    == exposed[1]
        IN  /\ "error" \in DOMAIN e
            /\ e.error.name = call.cls
            /\ e.error.message = (IF call.message = <<>>
                                  THEN cls.DEFAULT_MESSAGE
                                  ELSE call.message[1])
            /\ e.error.status_code = (IF call.status_code = <<>>
                                      THEN cls.DEFAULT_STATUS_CODE
                                      ELSE call.status_code[1])

\* a ChildError constructed without arguments has been exposed, and the
\* mapping carries the subclass's name and the subclass's own defaults
C24_Witness ==
    /\ exposed # <<>>
    /\ err # <<>>
    /\ err[1].call = [cls |-> ChildError.name, message |-> <<>>,
                      status_code |-> <<>>]
    /\ exposed[1].error = [name |-> "ChildError",
                           message |-> ChildError.DEFAULT_MESSAGE,
                           status_code |-> ChildError.DEFAULT_STATUS_CODE]

\* C25 as stated: the background hooks are registered in a phase between
\* emitter construction and shell / CLI registration: no hook is registered
\* before the emitter phase is over, and when the shell phase is entered
\* every supplied hook is registered.
C25_HooksAfterEmitters ==
    /\ self.puft.daemons # <<>> => PhaseRan("_build_emts")
    /\ PhaseEntered("_build_shell_processors") =>
        Range(self.puft.daemons) = args.build.hooks

\* C25, amended: the hooks are registered by the constructor of the Host, in
\* the service phase: from the construction of the Host on, so before any
\* view, error handler or emitter is handled, each supplied hook is
\* registered exactly once and no other hook is; no later phase changes that.
C25_HooksWithHost ==
    /\ Built("builtin", "puft") = {} => self.puft.daemons = <<>>
    /\ Built("builtin", "puft") # {} =>
        /\ Range(self.puft.daemons) = args.build.hooks
        /\ Len(self.puft.daemons) = Cardinality(args.build.hooks)
    /\ (/\ status = "running"
         /\ InStep("_run_builtin_sv_ies")
         /\ idx = 1) =>
            /\ Range(self.puft.daemons) = args.build.hooks
            /\ self.puft.views = <<>>
            /\ self.puft.registered_errors = <<>>
            /\ Emts = {}
            /\ ~PhaseRan("_build_svs")

\* the Host has just been constructed with two of the three hooks, the
\* service phase still running
C25_Witness ==
    /\ status = "running"
    /\ InStep("_run_builtin_sv_ies")
    /\ idx = 1
    /\ Len(self.builtin_sv_ies) > 1
    /\ Len(self.puft.daemons) = 2
    /\ Cardinality(args.build.hooks) = 2

\* C26 as stated: the default log parameter set of the class is, in every
\* state, the fixed set it was when the process started.
C26_DefaultsUnchanged == DEFAULT_LOG_PARAMS = DEFAULT_LOG_PARAMS_0

\* the file the active environment selects from the name's entry
SelectedFile(name) ==
    IF ActiveTag \in DOMAIN SourcesOf(name) THEN SourcesOf(name)[ActiveTag]
    ELSE SourcesOf(name)["prod"]

\* C27: the tag that selects the files is given by the mode alone, the mode
\* itself for dev, test and prod and dev for every other mode: every
\* component with a Config Source Entry is constructed from the file this
\* tag selects, the logger is configured from the "log" file this tag
\* selects, and a resolution error occurs only for a name that has neither
\* a file for this tag nor a production file.
C27_TagFromMode ==
    /\ \A i \in Components :
          HasEntry(built[i].name) =>
              built[i].config =
                  Put(Merge(LoadYaml(SelectedFile(built[i].name)),
                            OverrideOf(built[i].name)),
                      "root_path", self.root_dir)
    /\ PhaseRan("_build_log") /\ HasEntry("log") =>
          log.kwargs.level = LoadYaml(SelectedFile("log")).level
    /\ status = "aborted" /\ error = "ValueError" =>
          /\ InStep("_build_log") => Unresolvable("log")
          /\ InStep("_run_builtin_sv_ies") =>
                Unresolvable(self.builtin_sv_ies[idx + 1].name)
          /\ InStep("_run_custom_sv_ies") =>
                Unresolvable(self.build.sv_ies[idx + 1].name)

\* under a migration mode the logger and the Data Layer were both built from
\* the development files, production files being there too
C27_Witness ==
    /\ args.mode_enum.enum = "CLIDbEnum"
    /\ listdir = TaggedListing
    /\ log.configured
    /\ log.kwargs.level = "TRACE"
    /\ \E i \in Built("builtin", "db") : built[i].config.src = "db.dev.yaml"

\* the built-in components constructed so far
Builtins == {i \in 1..Len(built) : built[i].kind = "builtin"}

\* C28: every built-in is constructed with a configuration whose root_path
\* is the root directory of the engine, with or without a Config Source
\* Entry and whatever root_path its file or the caller's override names;
\* the Host keeps it, and no built-in fails for want of a root path.
C28_RootPathInjected ==
    /\ \A i \in Builtins :
        /\ "root_path" \in DOMAIN built[i].config
        /\ built[i].config.root_path = RootDir
    /\ Built("builtin", "puft") # {} => self.puft.config.ROOT_PATH = RootDir
    /\ status = "aborted" => error # "KeyError"
    /\ PhaseEntered("_build_svs") /\ ~Unresolvable("puft") =>
        Built("builtin", "puft") # {}

\* the Host was built from a file with an override that names another root
\* path, the Data Layer from a file that names another root path
C28_Witness ==
    /\ HasEntry("puft")
    /\ "root_path" \in DOMAIN OverrideOf("puft")
    /\ OverrideOf("puft").root_path # RootDir
    /\ LoadYaml("db.yaml").root_path # RootDir
    /\ \E i \in Built("builtin", "db") : built[i].config.src = "db.yaml"
    /\ \E i \in Built("builtin", "puft") : built[i].config.root_path = RootDir

\* C29 as stated: after a construction that aborted the Singleton Registry
\* holds no engine, and no call of the constructor has returned the engine
\* whose construction aborted.
C29_NoPartialEngineRegistered ==
    status = "aborted" =>
        /\ instances = 0
        /\ \A i \in 1..Len(returned) : returned[i] # self.id

\* the classes of the declared service descriptors
DeclaredClasses ==
    {args.build.sv_ies[k].sv_class : k \in 1..Len(args.build.sv_ies)}

\* C30 as stated: once the custom-service step is over the custom-service
\* mapping has one slot for each class declared, holding an instance of that
\* class, and no other slot.
C30_OneSlotPerType ==
    PhaseRan("_build_svs") =>
        /\ Cardinality(DOMAIN self.custom_svs) = Cardinality(DeclaredClasses)
        /\ \A class \in DeclaredClasses : Cardinality(SlotsOf(class)) = 1

====
